---- MODULE Spec2Model ----
(***************************************************************************)
(* Model of scripts/fetch-codes.mjs: the SHiFT code aggregation pipeline.  *)
(*                                                                         *)
(* A page text is abstracted to the sequence of its rows: every row holds  *)
(* one match of codeRegex, the reward text the format's reward pattern     *)
(* captures on it ("" when none) and the date phrase the format's date     *)
(* pattern captures on it.  Instants are counted in ticks of a small       *)
(* calendar (TicksPerDay ticks a day, DaysPerYear days a year); an ISO     *)
(* string is its wall-clock reading together with its UTC offset.          *)
(***************************************************************************)
EXTENDS Integers, Sequences, FiniteSets, TLC

\* ------------------------------------------------------------------ bounds
\* Code occurrences served to one run, over all pages.
MaxOccurrences == 3
\* Code occurrences served to a run that is then repeated.
MaxRerunOccurrences == 2
\* Code occurrences served to a run whose sources are then reordered.
MaxOrderOccurrences == 2
\* Rows of a page handed to siteExtractors.table on its own.
MaxTableRows == 4
\* Resolution of the calendar.
TicksPerDay == 4
DaysPerYear == 3

\* ---------------------------------------------------------------- calendar
LastDay == DaysPerYear
TicksPerYear == DaysPerYear * TicksPerDay
\* Tick of the day that holds the wall-clock hour h.
TickOfHour(h) == (h * TicksPerDay) \div 24
EndOfDayTick == TickOfHour(23)
Ticks(year, day, tick) == (year * DaysPerYear + (day - 1)) * TicksPerDay + tick

\* An ISO-8601 string: wall-clock ticks and UTC offset; null is a value of
\* the same shape.
Null == [isNull |-> TRUE, wall |-> 0, off |-> 0]
Iso(wall, off) == [isNull |-> FALSE, wall |-> wall, off |-> off]
\* new Date(isoString).getTime()
getTime(iso) == iso.wall - iso.off
\* Date.prototype.toISOString(): always rendered in UTC ("Z").
toISOString(t) == Iso(t, 0)
\* Date.prototype.getFullYear(): the year of the local wall clock.
getFullYear(t, tz) == (t + tz) \div TicksPerYear
\* Date.prototype.setHours(23, 59, 59, 999): end of the local day.
setHoursEndOfDay(t, tz) == (((t + tz) \div TicksPerDay) * TicksPerDay + EndOfDayTick) - tz
\* new Date("<Month> <day>, <year>"): local midnight of that date.
LocalMidnight(year, day, tz) == Ticks(year, day, 0) - tz

\* ---------------------------------------------------------- date phrases
\* kind: "none"     no date phrase captured (dateStr / bestDate is null)
\*       "long"     "September 26, 2030"      (tablePatterns[0])
\*       "abbr"     "Sep 26, 2030"            (tablePatterns[1])
\*       "numeric"  "9/26/2030"               (tablePatterns[2])
\*       "keyword"  NEW / Unlisted / Permanent (tablePatterns[3])
\*       "sentinel" "Dec 31, 2030"            (tablePatterns[1] and [3])
\*       "monthday" "September 26", no year   (line formats only)
\*       "garbage"  text that new Date() cannot parse, e.g. "soon", "13/45/99"
Phrase(kind, year, day) == [kind |-> kind, year |-> year, day |-> day]
NoPhrase == Phrase("none", 0, 0)
Keyword == Phrase("keyword", 0, 0)
Sentinel == Phrase("sentinel", 2030, LastDay)
Garbage == Phrase("garbage", 0, 0)
MonthDay(day) == Phrase("monthday", 0, day)
LongDate(year, day) == Phrase("long", year, day)
HasYear(p) == p.kind \in {"long", "abbr", "numeric"}

\* ------------------------------------------------------------- constants
PCGamerUrl == "https://www.pcgamer.com/games/fps/borderlands-4-shift-codes/"

SOURCES ==
  << [url |-> PCGamerUrl, name |-> "PC Gamer", type |-> "table", priority |-> 1],
     [url |-> "https://www.gamesradar.com/games/borderlands/borderlands-4-shift-codes-golden-keys/",
      name |-> "GamesRadar", type |-> "gamesradar", priority |-> 2],
     [url |-> "https://mentalmars.com/game-news/borderlands-4-shift-codes/",
      name |-> "MentalMars", type |-> "table", priority |-> 2],
     [url |-> "https://www.pcgamesn.com/borderlands-4/shift-codes",
      name |-> "PCGamesN", type |-> "pcgamesn", priority |-> 2],
     [url |-> "https://www.polygon.com/borderlands-4-active-shift-codes-redeem/",
      name |-> "Polygon", type |-> "polygon", priority |-> 2] >>

SourceNames == {SOURCES[i].name : i \in DOMAIN SOURCES}

BreakFreeCode == "JS63J-JSCWJ-CFTBW-3TJ3J-WJS5R"
PermCodeA == "T9RJB-BFKRR-3RBTW-B33TB-KCZB9"
PermCodeB == "39FB3-SHWXS-RRWZK-533TB-JHJBC"
\* A code that is in no hand-maintained table.
PlainCode == "AAAAA-BBBBB-CCCCC-DDDDD-EEEEE"

DefaultReward == "1x Golden Key"

\* "2030-12-31T23:59:00-06:00"
BreakFreeExpires == Iso(Ticks(2030, LastDay, TickOfHour(23)), 0 - TickOfHour(6))

SPECIAL_CODES ==
  [c \in {BreakFreeCode, PermCodeA, PermCodeB} |->
     IF c = BreakFreeCode
       THEN [reward |-> "Break Free Cosmetic Pack", expires |-> BreakFreeExpires,
             source |-> PCGamerUrl]
       ELSE [reward |-> "1x Golden Key", expires |-> Null, source |-> PCGamerUrl]]

\* Variant: the lookup misses the Break Free entry.
IsSpecialWithoutBreakFree(code) == code \in DOMAIN SPECIAL_CODES \ {BreakFreeCode}
\* SPECIAL_CODES[code] is truthy.
IsSpecial(code) == code \in DOMAIN SPECIAL_CODES

isKnownPermanent(code) == code \in {PermCodeA, PermCodeB}

MinYear == 2020
MaxYear == 2040
windowSize == 1500
\* Characters of page text from one row to the next: the rows of a page are
\* taken to be this far apart, so that the window of siteExtractors.table
\* reaches two rows back and one row ahead of the code's row.
RowWidth == 750
MinSites == 2

\* "2030-12-31T23:59:59.999Z"
SentinelIso == Iso(Ticks(2030, LastDay, EndOfDayTick), 0)

\* ------------------------------------------------------- date normalizers
\* Variant: nothing is ever found expired.
isCodeExpiredNever(expirationDate, now) == FALSE
\* Variant: an expiration equal to the clock reading is not yet expired.
isCodeExpiredStrict(expirationDate, now) ==
  IF expirationDate.isNull THEN FALSE
  ELSE getTime(expirationDate) < now
\* isCodeExpired(expirationDate), with the clock reading `now`.
isCodeExpired(expirationDate, now) ==
  IF expirationDate.isNull THEN FALSE
  ELSE getTime(expirationDate) <= now

\* parseGamesRadarDate(dateStr): the phrase gets ", <current year>" appended.
\* `now` is the clock reading of new Date().getFullYear().  Only a month-day
\* phrase makes "<phrase>, <year>" a date new Date() accepts.
parseGamesRadarDate(dateStr, now, tz) ==
  IF dateStr.kind = "none" THEN Null
  ELSE IF dateStr.kind = "monthday"
    THEN toISOString(setHoursEndOfDay(
           LocalMidnight(getFullYear(now, tz), dateStr.day, tz), tz))
    ELSE Null

\* parseStandardDate(dateStr).  A phrase without a year parses, if at all, to
\* a year before 2020 and fails the sanity bound like an unparsable one.
parseStandardDate(dateStr, tz) ==
  IF dateStr.kind = "none" THEN Null
  ELSE IF dateStr.kind = "keyword" THEN Null
  ELSE IF dateStr.kind = "sentinel" THEN SentinelIso
  ELSE IF HasYear(dateStr)
            /\ getFullYear(LocalMidnight(dateStr.year, dateStr.day, tz), tz) > MinYear
            /\ getFullYear(LocalMidnight(dateStr.year, dateStr.day, tz), tz) < MaxYear
    THEN toISOString(setHoursEndOfDay(LocalMidnight(dateStr.year, dateStr.day, tz), tz))
    ELSE Null

\* ------------------------------------------------------- field extractors
Min(a, b) == IF a < b THEN a ELSE b
Max(a, b) == IF a > b THEN a ELSE b
Abs(a) == IF a < 0 THEN 0 - a ELSE a

\* html.indexOf(code) / the first line that includes the code: the first row
\* of the page that holds the code (0 when there is none).
RECURSIVE IndexFrom(_, _, _)
IndexFrom(html, code, i) ==
  IF i > Len(html) THEN 0
  ELSE IF html[i].code = code THEN i
  ELSE IndexFrom(html, code, i + 1)
indexOf(html, code) == IndexFrom(html, code, 1)

Finding(reward, expires, hasValidDate) ==
  [reward |-> reward, expires |-> expires, hasValidDate |-> hasValidDate]

LineReward(line) == IF line.reward = "" THEN DefaultReward ELSE line.reward

\* siteExtractors.gamesradar
gamesradar(html, code, now, tz) ==
  LET i == indexOf(html, code) IN
  IF i = 0 THEN Finding(DefaultReward, Null, FALSE)
  ELSE Finding(LineReward(html[i]),
               parseGamesRadarDate(html[i].phrase, now, tz),
               html[i].phrase.kind # "none")

\* siteExtractors.pcgamesn
pcgamesn(html, code, tz) ==
  LET i == indexOf(html, code) IN
  IF i = 0 THEN Finding(DefaultReward, Null, FALSE)
  ELSE Finding(LineReward(html[i]),
               parseStandardDate(html[i].phrase, tz),
               html[i].phrase.kind # "none")

\* siteExtractors.polygon
polygon(html, code, tz) ==
  LET i == indexOf(html, code) IN
  IF i = 0 THEN Finding(DefaultReward, Null, FALSE)
  ELSE Finding(LineReward(html[i]),
               parseStandardDate(html[i].phrase, tz),
               html[i].phrase.kind # "none")

\* The tablePatterns a phrase matches, by index (1..4).
PatternsOf(p) ==
  CASE p.kind = "long" -> {1}
    [] p.kind = "abbr" -> {2}
    [] p.kind = "numeric" -> {3}
    [] p.kind = "keyword" -> {4}
    [] p.kind = "sentinel" -> {2, 4}
    [] OTHER -> {}

\* Variant: a match at the same distance as the best one replaces it.
RECURSIVE ScanMatchesLastTie(_, _, _, _, _, _)
ScanMatchesLastTie(html, codeIndex, lo, hi, k, best) ==
  IF k > 4 * (hi - lo + 1) THEN best
  ELSE LET pat == ((k - 1) \div (hi - lo + 1)) + 1
           pos == lo + ((k - 1) % (hi - lo + 1))
           distance == Abs(pos - codeIndex)
           hit == pat \in PatternsOf(html[pos].phrase)
                    /\ (~best.found \/ distance <= best.distance)
       IN ScanMatchesLastTie(html, codeIndex, lo, hi, k + 1,
            IF hit THEN [found |-> TRUE, distance |-> distance, phrase |-> html[pos].phrase]
                   ELSE best)

\* The scan of siteExtractors.table: patterns in order, matches of one
\* pattern in text order, a match replaces the best one only when strictly
\* closer.  best = [found, distance, phrase]; positions are row numbers.
RECURSIVE ScanMatches(_, _, _, _, _, _)
ScanMatches(html, codeIndex, lo, hi, k, best) ==
  IF k > 4 * (hi - lo + 1) THEN best
  ELSE LET pat == ((k - 1) \div (hi - lo + 1)) + 1
           pos == lo + ((k - 1) % (hi - lo + 1))
           distance == Abs(pos - codeIndex)
           hit == pat \in PatternsOf(html[pos].phrase)
                    /\ (~best.found \/ distance < best.distance)
       IN ScanMatches(html, codeIndex, lo, hi, k + 1,
            IF hit THEN [found |-> TRUE, distance |-> distance, phrase |-> html[pos].phrase]
                   ELSE best)

\* The rewardPatterns a reward text matches first, by index (1..3); 0: none.
RewardPatternOf(r) ==
  CASE r = "Break Free Cosmetic Pack" -> 1
    [] r = "5 Golden Keys" -> 2
    [] r = "Golden Key" -> 3
    [] OTHER -> 0

\* Reward detection of siteExtractors.table: the first pattern that matches
\* anywhere in the window, and its first match.
RECURSIVE ScanRewards(_, _, _, _)
ScanRewards(html, lo, hi, k) ==
  IF hi < lo \/ k > 3 * (hi - lo + 1) THEN DefaultReward
  ELSE LET pat == ((k - 1) \div (hi - lo + 1)) + 1
           pos == lo + ((k - 1) % (hi - lo + 1))
       IN IF RewardPatternOf(html[pos].reward) = pat THEN html[pos].reward
          ELSE ScanRewards(html, lo, hi, k + 1)

\* html.slice(start, end), lines 90-92, in rows: the first row that starts
\* at or after start, and the last row whose text starts before end (a match
\* has to lie within the slice).
WindowLo(html, codeIndex) == Max(1, codeIndex - (windowSize \div RowWidth))
WindowHi(html, codeIndex) == Min(Len(html), codeIndex + ((windowSize - 1) \div RowWidth))

\* siteExtractors.table, lines 88-117: bestDate and foundValidDate.
bestDate(html, code) ==
  LET codeIndex == indexOf(html, code)
      lo == WindowLo(html, codeIndex)
      hi == WindowHi(html, codeIndex)
  IN ScanMatches(html, codeIndex, lo, hi, 1,
       [found |-> FALSE, distance |-> 0, phrase |-> NoPhrase])

\* siteExtractors.table
table(html, code, tz) ==
  LET codeIndex == indexOf(html, code)
      lo == WindowLo(html, codeIndex)
      hi == WindowHi(html, codeIndex)
      best == bestDate(html, code)
  IN Finding(ScanRewards(html, lo, hi, 1),
             parseStandardDate(best.phrase, tz),
             best.found)

\* siteExtractors[type] || siteExtractors.table
Extract(type, html, code, now, tz) ==
  CASE type = "gamesradar" -> gamesradar(html, code, now, tz)
    [] type = "pcgamesn" -> pcgamesn(html, code, tz)
    [] type = "polygon" -> polygon(html, code, tz)
    [] OTHER -> table(html, code, tz)


\* ------------------------------------------------------------ page texts
Row(code, reward, phrase) == [code |-> code, reward |-> reward, phrase |-> phrase]

\* The day before the last day of the year ("December 30").
DayBeforeLast == LastDay - 1

\* Rows a source's page may hold, written in that source's format.
RowsOf(name) ==
  CASE name = "PC Gamer" ->
         { Row(PlainCode, "5 Golden Keys", LongDate(2030, DayBeforeLast)),
           Row(PlainCode, "", NoPhrase),
           Row(PlainCode, "", LongDate(2019, DayBeforeLast)),
           Row(BreakFreeCode, "Golden Key", Sentinel) }
    [] name = "GamesRadar" ->
         { Row(PlainCode, "1 Golden Key", MonthDay(DayBeforeLast)),
           Row(PlainCode, "", NoPhrase),
           Row(BreakFreeCode, "Cosmetic", NoPhrase) }
    [] name = "MentalMars" ->
         { Row(PlainCode, "Golden Key", Sentinel),
           Row(PlainCode, "", Keyword) }
    [] name = "PCGamesN" ->
         { Row(PlainCode, "3 Golden Keys", LongDate(2030, DayBeforeLast)) }
    [] OTHER ->
         { Row(PlainCode, "", Garbage),
           Row(PermCodeA, "", NoPhrase) }

\* Pages of at most n rows.
Pages(name, n) == UNION { [1..k -> RowsOf(name)] : k \in 0..n }

\* Clock readings a run may observe: the start of December 30, 2030, the
\* last tick of that day, and the first tick of 2031.
ClockTimes ==
  { Ticks(2030, DayBeforeLast, 0),
    Ticks(2030, DayBeforeLast, EndOfDayTick),
    Ticks(2031, 1, 0) }
\* Offsets of the local time zone from UTC: the scheduled job runs in UTC.
LocalOffsets == {0}
\* Clock readings at which a run is launched.
LaunchTimes == { Ticks(2030, DayBeforeLast, 0), Ticks(2031, 1, 0) }

\* ------------------------------------------------------------------ state
VARIABLES
  pc,             \* position of main()
  clock,          \* the last reading of the system clock
  launched,       \* the clock reading when the first run was launched
  tz,             \* offset of the local time zone
  run,            \* 1: first run, 2: the run repeated on the same texts
  texts,          \* what fetchText returned for each source name
  html,           \* the page being processed
  idx,            \* position of the for..of loop over codes
  srcIdx,         \* position of the loop over otherSources
  pcGamerCodes,   \* Map, as the sequence of its values in insertion order
  otherSiteCodes, \* Map, as the sequence of its values in insertion order
  payload,        \* the payload object built in Step 3
  file,           \* docs/codes.json
  exitCode,       \* process exit code, -1 while running
  log             \* console.log lines, as a set

vars == << pc, clock, launched, tz, run, texts, html, idx, srcIdx, pcGamerCodes,
           otherSiteCodes, payload, file, exitCode, log >>

\* SOURCES.find(s => s.name === "PC Gamer")
pcGamerSource == SOURCES[CHOOSE i \in DOMAIN SOURCES : SOURCES[i].name = "PC Gamer"]
\* SOURCES.filter(s => s.name !== "PC Gamer")
IsOther(s) == s.name # "PC Gamer"
otherSources == SelectSeq(SOURCES, IsOther)

\* Map operations on a sequence of records keyed by their code field.
MapHas(m, code) == \E i \in DOMAIN m : m[i].code = code
MapGet(m, code) == m[CHOOSE i \in DOMAIN m : m[i].code = code]
\* Variant: values are pushed to an array, a repeated key is not replaced.
MapSetPush(m, rec) == Append(m, rec)
MapSet(m, rec) ==
  IF MapHas(m, rec.code)
    THEN [i \in DOMAIN m |-> IF m[i].code = rec.code THEN rec ELSE m[i]]
    ELSE Append(m, rec)

NoPayload == [updated |-> Null, codes |-> << >>]

\* Code occurrences served so far in this run.
RECURSIVE SumLen(_, _)
SumLen(t, names) ==
  IF names = {} THEN 0
  ELSE LET n == CHOOSE x \in names : TRUE
       IN Len(t[n].page) + SumLen(t, names \ {n})
Served == SumLen(texts, SourceNames)

\* The texts fetchText may return for a source: any page within the bound on
\* the first run, the same page again on the repeated run.
PagesServed(name) ==
  IF run = 1 THEN Pages(name, MaxOccurrences - Served)
  ELSE {texts[name].page}

ClockFrom(t) == { n \in ClockTimes : n >= t }

LogLine(step, verdict, code, site) ==
  [step |-> step, verdict |-> verdict, code |-> code, site |-> site]

Init ==
  /\ pc = "fetchPC"
  /\ clock \in LaunchTimes
  /\ launched = clock
  /\ tz \in LocalOffsets
  /\ run = 1
  /\ texts = [n \in SourceNames |-> [status |-> "pending", page |-> << >>]]
  /\ html = << >>
  /\ idx = 0
  /\ srcIdx = 0
  /\ pcGamerCodes = << >>
  /\ otherSiteCodes = << >>
  /\ payload = NoPayload
  /\ file = [state |-> "absent", payload |-> NoPayload]
  /\ exitCode = -1
  /\ log = {}


\* ---------------------------------------------------------------- actions
\* Where main() goes when the loop over otherSources[k] has ended.
AfterOther(k) ==
  IF k < Len(otherSources)
    THEN /\ pc' = "fetchOther"
         /\ srcIdx' = k + 1
    ELSE /\ pc' = "assemble"
         /\ srcIdx' = k

\* fetchText(url) returns the page text (res.ok).
fetchText(name, page) ==
  /\ run = 1 \/ texts[name].status = "ok"
  /\ page \in PagesServed(name)
  /\ texts' = [texts EXCEPT ![name] = [status |-> "ok", page |-> page]]

\* fetchText(url) throws: network error or non-2xx status.
fetchTextThrows(name) ==
  /\ run = 1 \/ texts[name].status = "failed"
  /\ texts' = [texts EXCEPT ![name] = [status |-> "failed", page |-> << >>]]

\* Step 1, lines 205-209: the authoritative page arrives.
FetchPCGamer ==
  /\ pc = "fetchPC"
  /\ \E page \in PagesServed(pcGamerSource.name) :
       /\ fetchText(pcGamerSource.name, page)
       /\ html' = page
       /\ IF Len(page) = 0
            THEN pc' = "fetchOther" /\ idx' = 0 /\ srcIdx' = 1
            ELSE pc' = "loopPC" /\ idx' = 1 /\ srcIdx' = srcIdx
  /\ UNCHANGED << clock, launched, tz, run, pcGamerCodes, otherSiteCodes, payload, file, exitCode, log >>

\* Variant: the failure of the authoritative fetch is caught around both
\* steps, so Step 2 is skipped.
FetchPCGamerFailedSkipsStep2 ==
  /\ pc = "fetchPC"
  /\ fetchTextThrows(pcGamerSource.name)
  /\ pc' = "assemble"
  /\ srcIdx' = 1
  /\ log' = log \cup {LogLine(1, "FAILED", "", pcGamerSource.name)}
  /\ UNCHANGED << clock, launched, tz, run, html, idx, pcGamerCodes, otherSiteCodes, payload, file, exitCode >>

\* Step 1, lines 250-252: the fetch failed, the catch block logs and goes on.
FetchPCGamerFailed ==
  /\ pc = "fetchPC"
  /\ fetchTextThrows(pcGamerSource.name)
  /\ pc' = "fetchOther"
  /\ srcIdx' = 1
  /\ log' = log \cup {LogLine(1, "FAILED", "", pcGamerSource.name)}
  /\ UNCHANGED << clock, launched, tz, run, html, idx, pcGamerCodes, otherSiteCodes, payload, file, exitCode >>

\* The clock is read by parseGamesRadarDate when the line carries a phrase.
ReadsYear(type, page, code) ==
  /\ type = "gamesradar"
  /\ indexOf(page, code) # 0
  /\ page[indexOf(page, code)].phrase.kind # "none"

\* Variant: a finding without any date signal is not rejected.
NoValidDateNever(result, code) == FALSE
\* The first rejection rule: no expiration, no date signal, not permanent.
NoValidDate(result, code) ==
  result.expires.isNull /\ ~result.hasValidDate /\ ~isKnownPermanent(code)

\* Step 1, lines 211-249: the body of the loop over the codes of the
\* authoritative page.  nowY and nowE are the clock readings of
\* parseGamesRadarDate and of isCodeExpired; the result holds the new
\* pcGamerCodes, the line logged and the clock reading made last.
Step1Code(trusted, page, code, nowY, nowE, zone) ==
  LET result == Extract(pcGamerSource.type, page, code, nowY, zone)
      readsY == ReadsYear(pcGamerSource.type, page, code)
  IN IF IsSpecial(code)
       THEN [map |-> MapSet(trusted,
                       [code |-> code,
                        reward |-> SPECIAL_CODES[code].reward,
                        expires |-> SPECIAL_CODES[code].expires,
                        source |-> SPECIAL_CODES[code].source,
                        sites |-> << "PC Gamer (Special)" >>]),
             verdict |-> "SPECIAL", read |-> "none"]
     ELSE IF NoValidDate(result, code)
       THEN [map |-> trusted, verdict |-> "REJECTED",
             read |-> IF readsY THEN "year" ELSE "none"]
     ELSE IF ~result.expires.isNull /\ isCodeExpired(result.expires, nowE)
       THEN [map |-> trusted, verdict |-> "EXPIRED", read |-> "expiry"]
     ELSE [map |-> MapSet(trusted,
                     [code |-> code,
                      reward |-> result.reward,
                      expires |-> result.expires,
                      source |-> pcGamerSource.url,
                      sites |-> << "PC Gamer" >>]),
           verdict |-> "ACCEPTED",
           read |-> IF ~result.expires.isNull THEN "expiry"
                    ELSE IF readsY THEN "year" ELSE "none"]

\* The clock after an iteration that made the given reading last.
ClockAfter(read, nowY, nowE) ==
  IF read = "expiry" THEN nowE ELSE IF read = "year" THEN nowY ELSE clock

\* Step 1, lines 211-249: one iteration of the loop.
ProcessPCGamerCode ==
  /\ pc = "loopPC"
  /\ \E nowY \in ClockFrom(clock) : \E nowE \in ClockFrom(nowY) :
       LET r == Step1Code(pcGamerCodes, html, html[idx].code, nowY, nowE, tz)
       IN /\ pcGamerCodes' = r.map
          /\ log' = log \cup {LogLine(1, r.verdict, html[idx].code, pcGamerSource.name)}
          /\ clock' = ClockAfter(r.read, nowY, nowE)
  /\ IF idx < Len(html)
       THEN idx' = idx + 1 /\ pc' = pc /\ srcIdx' = srcIdx
       ELSE idx' = idx /\ pc' = "fetchOther" /\ srcIdx' = 1
  /\ UNCHANGED << launched, tz, run, texts, html, otherSiteCodes, payload, file, exitCode >>

\* Step 2, lines 260-264: the page of otherSources[srcIdx] arrives.
FetchOther ==
  /\ pc = "fetchOther"
  /\ LET src == otherSources[srcIdx] IN
     \E page \in PagesServed(src.name) :
       /\ fetchText(src.name, page)
       /\ html' = page
       /\ IF Len(page) = 0
            THEN idx' = 0 /\ AfterOther(srcIdx)
            ELSE idx' = 1 /\ pc' = "loopOther" /\ srcIdx' = srcIdx
  /\ UNCHANGED << clock, launched, tz, run, pcGamerCodes, otherSiteCodes, payload, file, exitCode, log >>

\* Variant: the failure of a fetch of Step 2 is not caught and reaches
\* main().catch.
FetchOtherFailedRethrows ==
  /\ pc = "fetchOther"
  /\ fetchTextThrows(otherSources[srcIdx].name)
  /\ pc' = "failed"
  /\ exitCode' = 1
  /\ log' = log \cup {LogLine(2, "FAILED", "", otherSources[srcIdx].name)}
  /\ UNCHANGED << clock, launched, tz, run, html, idx, srcIdx, pcGamerCodes, otherSiteCodes, payload, file >>

\* Step 2, lines 322-324: the fetch failed, the catch block logs and goes on.
FetchOtherFailed ==
  /\ pc = "fetchOther"
  /\ fetchTextThrows(otherSources[srcIdx].name)
  /\ AfterOther(srcIdx)
  /\ log' = log \cup {LogLine(2, "FAILED", "", otherSources[srcIdx].name)}
  /\ UNCHANGED << clock, launched, tz, run, html, idx, pcGamerCodes, otherSiteCodes, payload, file, exitCode >>

\* Variant: a repeated sighting overwrites the values of the entry.
TrackLastWins(m, codeData, name) ==
  IF ~MapHas(m, codeData.code)
    THEN MapSet(m, codeData)
    ELSE LET existing == MapGet(m, codeData.code)
         IN MapSet(m, [codeData EXCEPT !.count = existing.count + 1,
                                       !.sites = Append(existing.sites, name)])
\* Variant: a repeated sighting is counted and its source is not recorded.
TrackCountOnly(m, codeData, name) ==
  IF ~MapHas(m, codeData.code)
    THEN MapSet(m, codeData)
    ELSE LET existing == MapGet(m, codeData.code)
         IN MapSet(m, [existing EXCEPT !.count = @ + 1])
\* Variant: a repeated sighting overwrites sites instead of pushing to it.
TrackLastSiteOnly(m, codeData, name) ==
  IF ~MapHas(m, codeData.code)
    THEN MapSet(m, codeData)
    ELSE LET existing == MapGet(m, codeData.code)
         IN MapSet(m, [existing EXCEPT !.count = @ + 1,
                                       !.sites = << name >>])
\* Lines 313-320: track a sighting in otherSiteCodes.
Track(m, codeData, name) ==
  IF ~MapHas(m, codeData.code)
    THEN MapSet(m, codeData)
    ELSE LET existing == MapGet(m, codeData.code)
         IN MapSet(m, [existing EXCEPT !.count = @ + 1,
                                       !.sites = Append(@, name)])

\* Variant: Step 2 without the pcGamerCodes.has(code) test of lines 268-271.
Step2CodeNoSkip(trusted, others, src, page, code, nowY, nowE, zone) ==
  LET result == Extract(src.type, page, code, nowY, zone)
      readsY == ReadsYear(src.type, page, code)
  IN IF IsSpecial(code)
       THEN [map |-> Track(others,
                       [code |-> code,
                        reward |-> SPECIAL_CODES[code].reward,
                        expires |-> SPECIAL_CODES[code].expires,
                        source |-> SPECIAL_CODES[code].source,
                        sites |-> << src.name >>,
                        count |-> 1,
                        hasValidDate |-> TRUE], src.name),
             verdict |-> "TRACKED", read |-> "none"]
     ELSE IF NoValidDate(result, code)
       THEN [map |-> others, verdict |-> "REJECTED",
             read |-> IF readsY THEN "year" ELSE "none"]
     ELSE IF ~result.expires.isNull /\ isCodeExpired(result.expires, nowE)
       THEN [map |-> others, verdict |-> "EXPIRED", read |-> "expiry"]
     ELSE [map |-> Track(others,
                     [code |-> code,
                      reward |-> result.reward,
                      expires |-> result.expires,
                      source |-> src.url,
                      sites |-> << src.name >>,
                      count |-> 1,
                      hasValidDate |-> result.hasValidDate], src.name),
           verdict |-> "TRACKED",
           read |-> IF ~result.expires.isNull THEN "expiry"
                    ELSE IF readsY THEN "year" ELSE "none"]

\* Step 2, lines 266-321: the body of the loop over the codes of a
\* non-authoritative page; the result holds the new otherSiteCodes.
Step2Code(trusted, others, src, page, code, nowY, nowE, zone) ==
  LET result == Extract(src.type, page, code, nowY, zone)
      readsY == ReadsYear(src.type, page, code)
  IN IF MapHas(trusted, code)
       THEN [map |-> others, verdict |-> "SKIPPED", read |-> "none"]
     ELSE IF IsSpecial(code)
       THEN [map |-> Track(others,
                       [code |-> code,
                        reward |-> SPECIAL_CODES[code].reward,
                        expires |-> SPECIAL_CODES[code].expires,
                        source |-> SPECIAL_CODES[code].source,
                        sites |-> << src.name >>,
                        count |-> 1,
                        hasValidDate |-> TRUE], src.name),
             verdict |-> "TRACKED", read |-> "none"]
     ELSE IF NoValidDate(result, code)
       THEN [map |-> others, verdict |-> "REJECTED",
             read |-> IF readsY THEN "year" ELSE "none"]
     ELSE IF ~result.expires.isNull /\ isCodeExpired(result.expires, nowE)
       THEN [map |-> others, verdict |-> "EXPIRED", read |-> "expiry"]
     ELSE [map |-> Track(others,
                     [code |-> code,
                      reward |-> result.reward,
                      expires |-> result.expires,
                      source |-> src.url,
                      sites |-> << src.name >>,
                      count |-> 1,
                      hasValidDate |-> result.hasValidDate], src.name),
           verdict |-> "TRACKED",
           read |-> IF ~result.expires.isNull THEN "expiry"
                    ELSE IF readsY THEN "year" ELSE "none"]

\* Step 2, lines 266-321: one iteration of the loop.  A tracked sighting is
\* not logged.
ProcessOtherCode ==
  /\ pc = "loopOther"
  /\ \E nowY \in ClockFrom(clock) : \E nowE \in ClockFrom(nowY) :
       LET src == otherSources[srcIdx]
           r == Step2Code(pcGamerCodes, otherSiteCodes, src, html, html[idx].code,
                          nowY, nowE, tz)
       IN /\ otherSiteCodes' = r.map
          /\ log' = IF r.verdict = "TRACKED" THEN log
                    ELSE log \cup {LogLine(2, r.verdict, html[idx].code, src.name)}
          /\ clock' = ClockAfter(r.read, nowY, nowE)
  /\ IF idx < Len(html)
       THEN idx' = idx + 1 /\ pc' = pc /\ srcIdx' = srcIdx
       ELSE idx' = idx /\ AfterOther(srcIdx)
  /\ UNCHANGED << launched, tz, run, texts, html, pcGamerCodes, payload, file, exitCode >>

\* Variant: the ISO strings are compared as wall-clock text, offsets ignored.
CompareWallClock(a, b) ==
  IF a.expires.isNull /\ b.expires.isNull THEN 0
  ELSE IF a.expires.isNull THEN 1
  ELSE IF b.expires.isNull THEN -1
  ELSE IF a.expires.wall < b.expires.wall THEN -1
  ELSE IF a.expires.wall > b.expires.wall THEN 1
  ELSE 0

Compare(a, b) ==
  IF a.expires.isNull /\ b.expires.isNull THEN 0
  ELSE IF a.expires.isNull THEN 1
  ELSE IF b.expires.isNull THEN -1
  ELSE IF getTime(a.expires) < getTime(b.expires) THEN -1
  ELSE IF getTime(a.expires) > getTime(b.expires) THEN 1
  ELSE 0

\* Array.prototype.sort is stable: x goes behind every element that does not
\* compare greater than it.
RECURSIVE InsertSorted(_, _)
InsertSorted(s, x) ==
  IF s = << >> THEN << x >>
  ELSE IF Compare(s[Len(s)], x) > 0
    THEN Append(InsertSorted(SubSeq(s, 1, Len(s) - 1), x), s[Len(s)])
    ELSE Append(s, x)

RECURSIVE Sort(_)
Sort(s) ==
  IF s = << >> THEN << >>
  ELSE InsertSorted(Sort(SubSeq(s, 1, Len(s) - 1)), s[Len(s)])

\* Lines 335-342: add the entries of otherSiteCodes seen by 2+ sites.
RECURSIVE AddValidated(_, _, _)
AddValidated(finalEntries, others, i) ==
  IF i > Len(others) THEN finalEntries
  ELSE AddValidated(
         IF others[i].count >= MinSites THEN MapSet(finalEntries, others[i])
                                        ELSE finalEntries,
         others, i + 1)

\* Lines 329-342: finalEntries after Step 3.  Every value of pcGamerCodes is
\* set first (the keys of a Map are unique, so this is pcGamerCodes itself).
FinalEntries(trusted, others) == AddValidated(trusted, others, 1)

Step3Log(others) ==
  { LogLine(3, IF others[i].count >= MinSites THEN "VALIDATED" ELSE "REJECTED",
            others[i].code, others[i].sites[1]) : i \in DOMAIN others }

\* Lines 327-357: Step 3 and the payload, stamped with a fresh clock reading.
Assemble ==
  /\ pc = "assemble"
  /\ \E now \in ClockFrom(clock) :
       /\ clock' = now
       /\ payload' = [updated |-> toISOString(now),
                      codes |-> Sort(FinalEntries(pcGamerCodes, otherSiteCodes))]
  /\ log' = log \cup Step3Log(otherSiteCodes)
  /\ pc' = "mkdir"
  /\ UNCHANGED << launched, tz, run, texts, html, idx, srcIdx, pcGamerCodes, otherSiteCodes, file, exitCode >>

\* Line 359: fs.mkdir("docs", { recursive: true }).
Mkdir ==
  /\ pc = "mkdir"
  /\ pc' = "write"
  /\ UNCHANGED << clock, launched, tz, run, texts, html, idx, srcIdx, pcGamerCodes,
                  otherSiteCodes, payload, file, exitCode, log >>

\* Line 359 throws; main().catch exits with code 1 (line 373).
MkdirThrows ==
  /\ pc = "mkdir"
  /\ pc' = "failed"
  /\ exitCode' = 1
  /\ UNCHANGED << clock, launched, tz, run, texts, html, idx, srcIdx, pcGamerCodes,
                  otherSiteCodes, payload, file, log >>

\* Lines 360-361: fs.writeFile completes; main() resolves, exit code 0.
WriteFile ==
  /\ pc = "write"
  /\ file' = [state |-> "complete", payload |-> payload]
  /\ pc' = "done"
  /\ exitCode' = 0
  /\ UNCHANGED << clock, launched, tz, run, texts, html, idx, srcIdx, pcGamerCodes,
                  otherSiteCodes, payload, log >>

\* Line 360 throws: either the file could not be opened and is as before, or
\* it was opened (flag "w" truncates it) and the data was not written in
\* full.  main().catch exits with code 1 (line 373).
WriteFileThrows ==
  /\ pc = "write"
  /\ \/ file' = file
     \/ file' = [state |-> "partial", payload |-> NoPayload]
  /\ pc' = "failed"
  /\ exitCode' = 1
  /\ UNCHANGED << clock, launched, tz, run, texts, html, idx, srcIdx, pcGamerCodes,
                  otherSiteCodes, payload, log >>

\* Variant: the Maps outlive the run (module-level state).
RerunKeepsMaps ==
  /\ pc = "done"
  /\ run = 1
  /\ Served <= MaxRerunOccurrences
  /\ run' = 2
  /\ pc' = "fetchPC"
  /\ html' = << >>
  /\ idx' = 0
  /\ srcIdx' = 0
  /\ payload' = NoPayload
  /\ exitCode' = -1
  /\ log' = {}
  /\ UNCHANGED << clock, launched, tz, texts, file, pcGamerCodes, otherSiteCodes >>

\* The script is run again (a later scheduled run) against the same texts
\* and fetch outcomes; the clock has moved on or not.  main() starts with
\* new Maps (lines 197-199).
Rerun ==
  /\ pc = "done"
  /\ run = 1
  /\ Served <= MaxRerunOccurrences
  /\ run' = 2
  /\ pc' = "fetchPC"
  /\ html' = << >>
  /\ idx' = 0
  /\ srcIdx' = 0
  /\ pcGamerCodes' = << >>
  /\ otherSiteCodes' = << >>
  /\ payload' = NoPayload
  /\ exitCode' = -1
  /\ log' = {}
  /\ UNCHANGED << clock, launched, tz, texts, file >>

\* main() up to the sort, run over a registry of sources that all answer,
\* with every clock reading equal to t: Step 1 ...
RECURSIVE Pass1From(_, _, _, _, _)
Pass1From(trusted, page, i, t, zone) ==
  IF i > Len(page) THEN trusted
  ELSE Pass1From(Step1Code(trusted, page, page[i].code, t, t, zone).map,
                 page, i + 1, t, zone)

\* ... the code loop of Step 2 for one source ...
RECURSIVE Pass2Page(_, _, _, _, _, _, _)
Pass2Page(trusted, others, src, page, i, t, zone) ==
  IF i > Len(page) THEN others
  ELSE Pass2Page(trusted,
                 Step2Code(trusted, others, src, page, page[i].code, t, t, zone).map,
                 src, page, i + 1, t, zone)

\* ... the source loop of Step 2 ...
RECURSIVE Pass2From(_, _, _, _, _, _, _)
Pass2From(trusted, others, srcs, k, pages, t, zone) ==
  IF k > Len(srcs) THEN others
  ELSE Pass2From(trusted,
                 Pass2Page(trusted, others, srcs[k], pages[srcs[k].name], 1, t, zone),
                 srcs, k + 1, pages, t, zone)

\* ... and Step 3 with the sort.  Step 1 is skipped when the registry has no
\* "PC Gamer" entry (line 203).
MainCodes(registry, pages, t, zone) ==
  LET trusted == IF \E k \in DOMAIN registry : registry[k].name = "PC Gamer"
                   THEN Pass1From(<< >>, pages["PC Gamer"], 1, t, zone)
                   ELSE << >>
      others == Pass2From(trusted, << >>, SelectSeq(registry, IsOther), 1, pages, t, zone)
  IN Sort(FinalEntries(trusted, others))

Next ==
  \/ FetchPCGamer
  \/ FetchPCGamerFailed
  \/ ProcessPCGamerCode
  \/ FetchOther
  \/ FetchOtherFailed
  \/ ProcessOtherCode
  \/ Assemble
  \/ Mkdir
  \/ MkdirThrows
  \/ WriteFile
  \/ WriteFileThrows

Spec == Init /\ [][Next]_vars

\* Two consecutive runs on the same texts.
NextRerun == Next \/ Rerun
SpecRerun == Init /\ [][NextRerun]_vars


\* ----------------------------------------------------------- observations
Codes == {PlainCode, BreakFreeCode, PermCodeA, PermCodeB}
OtherNames == SourceNames \ {"PC Gamer"}

\* The feed as written to docs/codes.json.
Written == file.state = "complete"
Feed == file.payload.codes
InFeed(code) == \E i \in DOMAIN Feed : Feed[i].code = code
FeedRecord(code) == Feed[CHOOSE i \in DOMAIN Feed : Feed[i].code = code]
TimesInFeed(code) == Cardinality({ i \in DOMAIN Feed : Feed[i].code = code })

\* Occurrences of a code in the text a source returned.
Occurrences(name, code) ==
  Cardinality({ i \in DOMAIN texts[name].page : texts[name].page[i].code = code })
\* The successfully fetched sources whose text holds the code.
FoundOn(code) ==
  { n \in SourceNames : texts[n].status = "ok" /\ Occurrences(n, code) > 0 }

RECURSIVE SumOccurrences(_, _)
SumOccurrences(names, code) ==
  IF names = {} THEN 0
  ELSE LET n == CHOOSE x \in names : TRUE
       IN Occurrences(n, code) + SumOccurrences(names \ {n}, code)

TypeOf(name) == SOURCES[CHOOSE i \in DOMAIN SOURCES : SOURCES[i].name = name].type

\* The date phrase the extractor of a source hands to its date normalizer.
DateStrOf(name, code) ==
  IF TypeOf(name) \in {"gamesradar", "pcgamesn", "polygon"}
    THEN texts[name].page[indexOf(texts[name].page, code)].phrase
    ELSE bestDate(texts[name].page, code).phrase

\* ------------------------------------------------------------------ claims

\* C1: a code found on exactly one non-authoritative source, however many
\* times, and on no authoritative source is not in the written feed.
C1_SingleSourceNeverPublished ==
  Written =>
    \A c \in Codes :
      ("PC Gamer" \notin FoundOn(c) /\ Cardinality(FoundOn(c)) = 1) => ~InFeed(c)

\* C2: every record of the written feed has a null expires or an expires
\* strictly later than the feed's updated timestamp.
C2_NoRecordExpiredAtUpdated ==
  Written =>
    \A i \in DOMAIN Feed :
      Feed[i].expires.isNull \/ getTime(Feed[i].expires) > getTime(file.payload.updated)

\* C3 (as stated): every Override Entry code extracted from at least one
\* successfully fetched source is in the written feed with exactly the
\* override's reward, expires and source.
C3_OverrideAlwaysPublished ==
  Written =>
    \A c \in DOMAIN SPECIAL_CODES :
      FoundOn(c) # {} =>
        /\ InFeed(c)
        /\ FeedRecord(c).reward = SPECIAL_CODES[c].reward
        /\ FeedRecord(c).expires = SPECIAL_CODES[c].expires
        /\ FeedRecord(c).source = SPECIAL_CODES[c].source

\* C3 (amended): an Override Entry code extracted from the successfully
\* fetched authoritative source, or at least twice in all from successfully
\* fetched non-authoritative sources, is in the written feed; and every
\* Override Entry code that is in the feed has exactly the override's reward,
\* expires and source, whatever the rows of the pages say.
C3_OverridePublishedWhenTrustedOrTwice ==
  Written =>
    \A c \in DOMAIN SPECIAL_CODES :
      /\ ("PC Gamer" \in FoundOn(c)
            \/ SumOccurrences({n \in OtherNames : texts[n].status = "ok"}, c) >= 2)
           => InFeed(c)
      /\ InFeed(c) =>
           /\ FeedRecord(c).reward = SPECIAL_CODES[c].reward
           /\ FeedRecord(c).expires = SPECIAL_CODES[c].expires
           /\ FeedRecord(c).source = SPECIAL_CODES[c].source

\* An override code was published on the strength of non-authoritative rows
\* whose own reward text and date phrase differ from the override's.
C3_Witness ==
  /\ Written
  /\ InFeed(BreakFreeCode)
  /\ "PC Gamer" \notin FoundOn(BreakFreeCode)
  /\ \E n \in FoundOn(BreakFreeCode) : \E i \in DOMAIN texts[n].page :
       /\ texts[n].page[i].code = BreakFreeCode
       /\ texts[n].page[i].reward # SPECIAL_CODES[BreakFreeCode].reward

\* The finding of the authoritative page for a code passes the rejection
\* rules at the clock reading `now`.
PassesOnPCGamer(code, now) ==
  LET result == Extract(pcGamerSource.type, texts["PC Gamer"].page, code, now, tz)
  IN /\ ~NoValidDate(result, code)
     /\ ~isCodeExpired(result.expires, now)

\* C4: a code found on the authoritative source whose finding passes the
\* rejection rules (logged as accepted, or still passing them when the feed
\* is stamped) is in the written feed exactly once, with sites containing
\* "PC Gamer", whatever the other sources hold.
C4_AuthoritativePublishedOnce ==
  Written =>
    \A c \in Codes \ DOMAIN SPECIAL_CODES :
      ("PC Gamer" \in FoundOn(c)
         /\ (LogLine(1, "ACCEPTED", c, "PC Gamer") \in log
               \/ PassesOnPCGamer(c, getTime(file.payload.updated))))
        => /\ TimesInFeed(c) = 1
           /\ \E k \in DOMAIN FeedRecord(c).sites : FeedRecord(c).sites[k] = "PC Gamer"

\* The accepted code occurs twice in the authoritative page and is also
\* sighted on a non-authoritative source.
C4_Witness ==
  /\ Written
  /\ Occurrences("PC Gamer", PlainCode) >= 2
  /\ LogLine(1, "ACCEPTED", PlainCode, "PC Gamer") \in log
  /\ FoundOn(PlainCode) \ {"PC Gamer"} # {}
  /\ TimesInFeed(PlainCode) = 1

\* C5: a code the authoritative pass rejected (found on the authoritative
\* page, no trusted entry created) is not in the written feed.
C5_AuthoritativeRejectionSuppresses ==
  Written =>
    \A c \in Codes :
      ("PC Gamer" \in FoundOn(c) /\ ~MapHas(pcGamerCodes, c)) => ~InFeed(c)

\* C6: every record of the written feed with expires = null was confirmed
\* as never expiring: an Override Entry with null expiration, a code of the
\* Known-Permanent Set, or a finding whose date phrase was a permanence
\* keyword.
C6_NullExpiresIsConfirmed ==
  Written =>
    \A i \in DOMAIN Feed :
      Feed[i].expires.isNull =>
        \/ IsSpecial(Feed[i].code) /\ SPECIAL_CODES[Feed[i].code].expires.isNull
        \/ isKnownPermanent(Feed[i].code)
        \/ LET first == Feed[i].sites[1]
               name == IF first = "PC Gamer (Special)" THEN "PC Gamer" ELSE first
           IN DateStrOf(name, Feed[i].code).kind = "keyword"

\* C7: the codes array of the written feed is ordered by expires ascending
\* as instants, and no record with null expires precedes a dated record.
C7_FeedSortedByInstant ==
  Written =>
    \A i \in DOMAIN Feed : \A j \in DOMAIN Feed :
      i < j =>
        /\ (~Feed[i].expires.isNull /\ ~Feed[j].expires.isNull)
             => getTime(Feed[i].expires) <= getTime(Feed[j].expires)
        /\ ~(Feed[i].expires.isNull /\ ~Feed[j].expires.isNull)

\* Two dated records whose ISO strings carry different offsets were put in
\* instant order against their order of insertion and of wall-clock text.
C7_Witness ==
  /\ Written
  /\ Len(pcGamerCodes) >= 2
  /\ \E i \in DOMAIN Feed : \E j \in DOMAIN Feed :
       /\ i < j
       /\ ~Feed[i].expires.isNull /\ ~Feed[j].expires.isNull
       /\ Feed[i].expires.off # Feed[j].expires.off
       /\ getTime(Feed[i].expires) < getTime(Feed[j].expires)
       /\ Feed[i].expires.wall >= Feed[j].expires.wall
       /\ pcGamerCodes[1].code = Feed[j].code
       /\ pcGamerCodes[2].code = Feed[i].code

\* The repeated run has built its payload; docs/codes.json still holds the
\* feed of the first run.
RerunAssembled == run = 2 /\ pc = "write" /\ Written

\* C8 (as stated): two runs on identical texts and fetch outcomes produce
\* identical codes arrays, although they take place at different clock times.
C8_RerunSameCodes ==
  RerunAssembled => payload.codes = Feed

\* Between the instants t1 and t2 the calendar year does not change and no
\* finding that the fetched texts yield passes its expiration.
StableBetween(t1, t2) ==
  /\ getFullYear(t1, tz) = getFullYear(t2, tz)
  /\ \A n \in SourceNames : \A i \in DOMAIN texts[n].page :
       LET e == Extract(TypeOf(n), texts[n].page, texts[n].page[i].code, t1, tz).expires
       IN isCodeExpired(e, t1) = isCodeExpired(e, t2)

\* C8 (amended): two runs on identical texts and fetch outcomes produce
\* identical codes arrays provided that, from the launch of the first run to
\* the last clock reading of the second, the calendar year does not change
\* and no extracted finding passes its expiration.
C8_RerunSameCodesWhileStable ==
  (RerunAssembled /\ StableBetween(launched, clock)) => payload.codes = Feed

\* A repeated run at a later clock reading reproduced a non-empty codes array.
C8_Witness ==
  /\ RerunAssembled
  /\ StableBetween(launched, clock)
  /\ clock > getTime(file.payload.updated)
  /\ payload.codes # << >>
  /\ payload.codes = Feed

\* Site names that a map's entries carry.
SitesIn(m) == UNION { { m[i].sites[k] : k \in DOMAIN m[i].sites } : i \in DOMAIN m }

\* The registry without the sources whose fetch failed, and the texts.
NotFailed(s) == texts[s.name].status # "failed"
PagesOf == [n \in SourceNames |-> texts[n].page]

\* C9: a source whose fetch failed contributes no entry, no count and no
\* site name to either map, and every other source is still fetched and
\* processed: after a failure of the authoritative source Pass 2 runs,
\* Step 3 is reached only when every source has been attempted, and (for a
\* run during which no finding expires and the year does not change) the
\* written codes are those of a run over the registry without the failed
\* sources.
C9_FailedSourceContributesNothing ==
  /\ (Written /\ StableBetween(launched, clock)) =>
       Feed = MainCodes(SelectSeq(SOURCES, NotFailed), PagesOf, launched, tz)
  /\ LET failed == { n \in SourceNames : texts[n].status = "failed" }
     IN /\ (SitesIn(pcGamerCodes) \cup SitesIn(otherSiteCodes)) \cap failed = {}
        /\ ("PC Gamer" \in failed => pcGamerCodes = << >>)
  /\ \A i \in DOMAIN otherSiteCodes :
       /\ otherSiteCodes[i].count = Len(otherSiteCodes[i].sites)
       /\ \A k \in DOMAIN otherSiteCodes[i].sites :
            /\ texts[otherSiteCodes[i].sites[k]].status = "ok"
            /\ Occurrences(otherSiteCodes[i].sites[k], otherSiteCodes[i].code) > 0
  /\ pc \in {"assemble", "mkdir", "write", "done", "failed"} =>
       \A n \in SourceNames : texts[n].status # "pending"

\* The authoritative fetch and one more fetch failed, and the feed was still
\* written with a record corroborated by the remaining sources.
C9_Witness ==
  /\ Written
  /\ StableBetween(launched, clock)
  /\ texts["PC Gamer"].status = "failed"
  /\ \E n \in OtherNames : texts[n].status = "failed"
  /\ Feed # << >>

\* C10: every record of the written feed has exactly the five fields code,
\* reward, expires, source and sites.
C10_RecordsHaveFiveFields ==
  Written =>
    \A i \in DOMAIN Feed :
      DOMAIN Feed[i] = {"code", "reward", "expires", "source", "sites"}

\* Pass 1 has ended: main() has left Step 1.
Pass1Ended == pc \notin {"fetchPC", "loopPC"}

\* C11: Pass 2 never changes the authoritative result.  Once Step 1 has
\* ended no step changes pcGamerCodes; no entry of otherSiteCodes ever has
\* the code of an entry of pcGamerCodes; Step 3 puts every entry of
\* pcGamerCodes in the codes array exactly once and as it is (code, reward,
\* expires, source and sites); and the file written holds that array.
C11_Pass2KeepsAuthoritative ==
  [][ /\ Pass1Ended => pcGamerCodes' = pcGamerCodes
      /\ \A j \in DOMAIN pcGamerCodes' :
           ~MapHas(otherSiteCodes', pcGamerCodes'[j].code)
      /\ pc = "assemble" =>
           \A j \in DOMAIN pcGamerCodes :
             /\ Cardinality({ i \in DOMAIN payload'.codes :
                               payload'.codes[i].code = pcGamerCodes[j].code }) = 1
             /\ \A i \in DOMAIN payload'.codes :
                  payload'.codes[i].code = pcGamerCodes[j].code
                    => payload'.codes[i] = pcGamerCodes[j]
      /\ (pc = "write" /\ pc' = "done") => file'.payload = payload
    ]_vars

\* A code accepted in Pass 1 was sighted twice on non-authoritative pages
\* that give it another reward, and the feed holds the Pass-1 record.
C11_Witness ==
  /\ Written
  /\ MapHas(pcGamerCodes, PlainCode)
  /\ SumOccurrences({n \in OtherNames : texts[n].status = "ok"}, PlainCode) >= 2
  /\ \E n \in FoundOn(PlainCode) \ {"PC Gamer"} :
       Extract(TypeOf(n), texts[n].page, PlainCode, launched, tz).reward
         # MapGet(pcGamerCodes, PlainCode).reward
  /\ FeedRecord(PlainCode) = MapGet(pcGamerCodes, PlainCode)

\* The rejection rules of the spec applied to what a source's extractor
\* finds for a code, the year being read at nowY and the expiration being
\* compared at nowE: no trusted signal, null expiration and not a
\* known-permanent code, or an expiration not later than the clock.
RejectedAt(name, page, code, nowY, nowE) ==
  LET finding == Extract(TypeOf(name), page, code, nowY, tz)
  IN \/ finding.expires.isNull /\ ~finding.hasValidDate /\ ~isKnownPermanent(code)
     \/ ~finding.expires.isNull /\ getTime(finding.expires) <= nowE

\* The sighting is rejected at every pair of clock readings from t1 to t2.
RejectedThroughout(name, page, code, t1, t2) ==
  \A nowY \in ClockTimes : \A nowE \in ClockTimes :
    (t1 <= nowY /\ nowY <= nowE /\ nowE <= t2) => RejectedAt(name, page, code, nowY, nowE)

\* The sighting is accepted at every pair of clock readings from t1 to t2.
AcceptedThroughout(name, page, code, t1, t2) ==
  \A nowY \in ClockTimes : \A nowE \in ClockTimes :
    (t1 <= nowY /\ nowY <= nowE /\ nowE <= t2) => ~RejectedAt(name, page, code, nowY, nowE)

\* How many times a site name is in a sites list.
TimesIn(sites, name) == Cardinality({ k \in DOMAIN sites : sites[k] = name })

\* C12: only sightings that pass the rejection rules are accumulated in
\* Pass 2.  A step of the Step 2 loop on a non-override sighting that the
\* rules reject leaves otherSiteCodes as it is; and in the written feed the
\* sites of a corroborated non-override record name a source at most once
\* per occurrence of the code in its text, never a source whose sighting was
\* rejected throughout the run, and every source whose sighting was accepted
\* throughout the run once per occurrence.
C12_OnlyAcceptedSightingsAccumulate ==
  /\ [][ (pc = "loopOther" /\ ~IsSpecial(html[idx].code)
            /\ RejectedThroughout(otherSources[srcIdx].name, html, html[idx].code,
                                  clock, clock'))
           => otherSiteCodes' = otherSiteCodes ]_vars
  /\ [](Written =>
         \A i \in DOMAIN Feed :
           ("count" \in DOMAIN Feed[i] /\ ~IsSpecial(Feed[i].code)) =>
             \A n \in OtherNames :
               LET times == TimesIn(Feed[i].sites, n)
                   found == Occurrences(n, Feed[i].code)
               IN /\ times <= found
                  /\ (found > 0 /\ RejectedThroughout(n, texts[n].page, Feed[i].code,
                                                      launched, clock))
                       => times = 0
                  /\ (found > 0 /\ AcceptedThroughout(n, texts[n].page, Feed[i].code,
                                                      launched, clock))
                       => times = found)

\* A code was accepted on two sources and rejected on a third, and is
\* published with the two accepting sources as its sites.
C12_Witness ==
  /\ Written
  /\ InFeed(PlainCode)
  /\ Len(FeedRecord(PlainCode).sites) = 2
  /\ FeedRecord(PlainCode).sites[1] # FeedRecord(PlainCode).sites[2]
  /\ \E n \in OtherNames :
       /\ texts[n].status = "ok"
       /\ Occurrences(n, PlainCode) > 0
       /\ TimesIn(FeedRecord(PlainCode).sites, n) = 0
       /\ RejectedThroughout(n, texts[n].page, PlainCode, launched, clock)

\* ------------------------------------------------- processing orders
\* The orders in which the non-authoritative sources can be processed.
Orders ==
  { o \in [DOMAIN otherSources -> DOMAIN otherSources] :
      \A i \in DOMAIN o : \A j \in DOMAIN o : o[i] = o[j] => i = j }
\* SOURCES with its non-authoritative entries in the order o.
Reordered(o) == << pcGamerSource >> \o [i \in DOMAIN otherSources |-> otherSources[o[i]]]

\* Every source answers with a page, one source after the other.
ServePage ==
  /\ pc = "serve"
  /\ srcIdx < Len(SOURCES)
  /\ \E page \in Pages(SOURCES[srcIdx + 1].name, MaxOrderOccurrences - Served) :
       texts' = [texts EXCEPT ![SOURCES[srcIdx + 1].name] = [status |-> "ok", page |-> page]]
  /\ srcIdx' = srcIdx + 1
  /\ UNCHANGED << pc, clock, launched, tz, run, html, idx, pcGamerCodes, otherSiteCodes,
                  payload, file, exitCode, log >>

\* main() over the texts served, every clock reading being `clock`: once with
\* SOURCES as it is (the payload) and once with the non-authoritative
\* sources in another order (the file).
ProcessInOrder ==
  /\ pc = "serve"
  /\ srcIdx = Len(SOURCES)
  /\ \E o \in Orders :
       /\ payload' = [updated |-> toISOString(clock),
                      codes |-> MainCodes(SOURCES, PagesOf, clock, tz)]
       /\ file' = [state |-> "complete",
                   payload |-> [updated |-> toISOString(clock),
                                codes |-> MainCodes(Reordered(o), PagesOf, clock, tz)]]
  /\ pc' = "ordered"
  /\ UNCHANGED << clock, launched, tz, run, texts, html, idx, srcIdx, pcGamerCodes,
                  otherSiteCodes, exitCode, log >>

InitOrder ==
  /\ pc = "serve"
  /\ clock \in ClockTimes
  /\ launched = clock
  /\ tz \in LocalOffsets
  /\ run = 1
  /\ texts = [n \in SourceNames |-> [status |-> "pending", page |-> << >>]]
  /\ html = << >>
  /\ idx = 0
  /\ srcIdx = 0
  /\ pcGamerCodes = << >>
  /\ otherSiteCodes = << >>
  /\ payload = NoPayload
  /\ file = [state |-> "absent", payload |-> NoPayload]
  /\ exitCode = -1
  /\ log = {}

NextOrder == ServePage \/ ProcessInOrder
SpecOrder == InitOrder /\ [][NextOrder]_vars

\* The codes of a codes array, and the record of a code in it.
CodesOf(codes) == { codes[i].code : i \in DOMAIN codes }
RecordIn(codes, code) == codes[CHOOSE i \in DOMAIN codes : codes[i].code = code]

\* C13 (as stated): for fixed texts and a fixed clock every processing
\* order of the non-authoritative sources publishes the same codes and, for
\* each published code, the same reward, expires and source.
C13_OrderIndependentRecords ==
  pc = "ordered" =>
    /\ CodesOf(payload.codes) = CodesOf(Feed)
    /\ \A c \in CodesOf(payload.codes) \cap CodesOf(Feed) :
         /\ RecordIn(payload.codes, c).reward = RecordIn(Feed, c).reward
         /\ RecordIn(payload.codes, c).expires = RecordIn(Feed, c).expires
         /\ RecordIn(payload.codes, c).source = RecordIn(Feed, c).source

\* C13 (amended): for fixed texts and a fixed clock every processing order
\* of the non-authoritative sources publishes the same codes, each with the
\* same site names the same number of times; the record of a code of the
\* authoritative page or of the Override Entry table is the same in every
\* field.
C13_OrderIndependentCodesAndSites ==
  pc = "ordered" =>
    /\ CodesOf(payload.codes) = CodesOf(Feed)
    /\ \A c \in CodesOf(payload.codes) \cap CodesOf(Feed) :
         LET a == RecordIn(payload.codes, c)
             b == RecordIn(Feed, c)
         IN /\ Len(a.sites) = Len(b.sites)
            /\ \A n \in SourceNames \cup {"PC Gamer (Special)"} :
                 TimesIn(a.sites, n) = TimesIn(b.sites, n)
            /\ ("count" \in DOMAIN a) = ("count" \in DOMAIN b)
            /\ ("count" \in DOMAIN a) => a.count = b.count
            /\ (IsSpecial(c) \/ "count" \notin DOMAIN a) =>
                 /\ a.reward = b.reward
                 /\ a.expires = b.expires
                 /\ a.source = b.source

\* Two sources that give a code different rewards and expirations were
\* processed in both orders: the code is published either way, with the
\* values of the source that came first.
C13_Witness ==
  /\ pc = "ordered"
  /\ InFeed(PlainCode)
  /\ PlainCode \in CodesOf(payload.codes)
  /\ RecordIn(payload.codes, PlainCode).sites # FeedRecord(PlainCode).sites
  /\ RecordIn(payload.codes, PlainCode).expires # FeedRecord(PlainCode).expires

\* C14: docs/codes.json is never observable in a partial state: it holds the
\* complete previous feed (or does not exist yet) or the complete new feed,
\* also after a run that failed while writing.
C14_FileNeverPartial ==
  /\ file.state \in {"absent", "complete"}
  /\ (run = 2 /\ pc = "failed") => Written

\* C15: first sighting wins in Pass 2.  A step of the Step 2 loop keeps every
\* entry of otherSiteCodes in its place with its code, reward, expires and
\* source; it changes at most the entry of the code it processes, by adding
\* one to count and appending the name of the source to sites, or appends
\* one new entry for that code with count 1; no other step before the final
\* assembly changes otherSiteCodes, and the final assembly copies the entry.
C15_FirstSightingWins ==
  [][ /\ pc # "loopOther" => otherSiteCodes' = otherSiteCodes
      /\ pc = "loopOther" =>
           LET code == html[idx].code
               name == otherSources[srcIdx].name
           IN /\ Len(otherSiteCodes') \in {Len(otherSiteCodes), Len(otherSiteCodes) + 1}
              /\ \A i \in DOMAIN otherSiteCodes :
                   LET old == otherSiteCodes[i]
                       new == otherSiteCodes'[i]
                   IN /\ new.code = old.code
                      /\ new.reward = old.reward
                      /\ new.expires = old.expires
                      /\ new.source = old.source
                      /\ \/ new = old
                         \/ /\ old.code = code
                            /\ new.count = old.count + 1
                            /\ new.sites = Append(old.sites, name)
              /\ Len(otherSiteCodes') = Len(otherSiteCodes) + 1 =>
                   LET new == otherSiteCodes'[Len(otherSiteCodes')]
                   IN /\ new.code = code
                      /\ ~MapHas(otherSiteCodes, code)
                      /\ new.count = 1
                      /\ new.sites = << name >>
      /\ pc = "assemble" =>
           \A i \in DOMAIN otherSiteCodes :
             otherSiteCodes[i].count >= MinSites =>
               \E k \in DOMAIN payload'.codes : payload'.codes[k] = otherSiteCodes[i]
    ]_vars

\* An entry was sighted again on a source whose extractor gives the code
\* another reward and expiration, and kept those of its first source.
C15_Witness ==
  \E i \in DOMAIN otherSiteCodes :
    LET e == otherSiteCodes[i]
    IN /\ e.code = PlainCode
       /\ e.count >= 2
       /\ e.sites[1] # e.sites[2]
       /\ e.reward = Extract(TypeOf(e.sites[1]), texts[e.sites[1]].page, e.code,
                             launched, tz).reward
       /\ e.reward # Extract(TypeOf(e.sites[2]), texts[e.sites[2]].page, e.code,
                             launched, tz).reward
       /\ e.expires # Extract(TypeOf(e.sites[2]), texts[e.sites[2]].page, e.code,
                              launched, tz).expires

\* The finding is ambiguous: no trusted signal, no expiration, and the code
\* is not in the Known-Permanent Set.
Ambiguous(finding, code) ==
  ~finding.hasValidDate /\ finding.expires.isNull /\ ~isKnownPermanent(code)

\* The step processes a non-override sighting that Pass 2 does not skip.
Pass1Sighting == pc = "loopPC" /\ ~IsSpecial(html[idx].code)
Pass2Sighting ==
  pc = "loopOther" /\ ~IsSpecial(html[idx].code) /\ ~MapHas(pcGamerCodes, html[idx].code)

\* C16 (as stated): in both passes an ambiguous non-override finding is
\* discarded, and a finding with hasValidDate = true or with a non-null
\* unexpired expires is kept.
C16_SignalOrUnexpiredKept ==
  [][ /\ Pass1Sighting =>
           LET code == html[idx].code
               finding == Extract(pcGamerSource.type, html, code, clock, tz)
           IN /\ Ambiguous(finding, code) => pcGamerCodes' = pcGamerCodes
              /\ (finding.hasValidDate
                    \/ (~finding.expires.isNull /\ getTime(finding.expires) > clock'))
                   => MapHas(pcGamerCodes', code)
      /\ Pass2Sighting =>
           LET code == html[idx].code
               finding == Extract(otherSources[srcIdx].type, html, code, clock, tz)
           IN /\ Ambiguous(finding, code) => otherSiteCodes' = otherSiteCodes
              /\ (finding.hasValidDate
                    \/ (~finding.expires.isNull /\ getTime(finding.expires) > clock'))
                   => otherSiteCodes' # otherSiteCodes
    ]_vars

\* C16 (amended): in both passes an ambiguous non-override finding is
\* discarded, and a finding with a trusted signal or an expiration is kept
\* unless that expiration is not later than the clock when it is checked;
\* hence every non-override record of pcGamerCodes and of otherSiteCodes had
\* a trusted signal, or has an expiration later than the clock at the launch
\* of the run, or is a known-permanent code.
C16_AmbiguousRejectedElseKeptUnlessExpired ==
  /\ [][ /\ Pass1Sighting =>
             LET code == html[idx].code
                 finding == Extract(pcGamerSource.type, html, code, clock, tz)
             IN /\ Ambiguous(finding, code)
                     => (pcGamerCodes' = pcGamerCodes /\ ~MapHas(pcGamerCodes', code))
                /\ AcceptedThroughout(pcGamerSource.name, html, code, clock, clock')
                     => /\ MapHas(pcGamerCodes', code)
                        /\ MapGet(pcGamerCodes', code).expires = finding.expires
                        /\ MapGet(pcGamerCodes', code).reward = finding.reward
        /\ Pass2Sighting =>
             LET code == html[idx].code
                 name == otherSources[srcIdx].name
                 finding == Extract(otherSources[srcIdx].type, html, code, clock, tz)
             IN /\ Ambiguous(finding, code) => otherSiteCodes' = otherSiteCodes
                /\ AcceptedThroughout(name, html, code, clock, clock')
                     => /\ MapHas(otherSiteCodes', code)
                        /\ otherSiteCodes' # otherSiteCodes
      ]_vars
  /\ [](/\ \A j \in DOMAIN pcGamerCodes :
            LET r == pcGamerCodes[j]
            IN ~IsSpecial(r.code) =>
                 \/ bestDate(texts["PC Gamer"].page, r.code).found
                 \/ ~r.expires.isNull /\ getTime(r.expires) > launched
                 \/ isKnownPermanent(r.code)
        /\ \A i \in DOMAIN otherSiteCodes :
            LET r == otherSiteCodes[i]
            IN ~IsSpecial(r.code) =>
                 \/ r.hasValidDate
                 \/ ~r.expires.isNull /\ getTime(r.expires) > launched
                 \/ isKnownPermanent(r.code))

\* A finding without any date signal was discarded in Pass 1, and one whose
\* only signal is a permanence keyword (null expiration) was kept in Pass 2.
C16_Witness ==
  /\ Pass1Ended
  /\ LogLine(1, "REJECTED", PlainCode, "PC Gamer") \in log
  /\ ~MapHas(pcGamerCodes, PlainCode)
  /\ Ambiguous(Extract(pcGamerSource.type, texts["PC Gamer"].page, PlainCode, launched, tz),
               PlainCode)
  /\ \E i \in DOMAIN otherSiteCodes :
       /\ otherSiteCodes[i].code = PlainCode
       /\ otherSiteCodes[i].expires.isNull
       /\ otherSiteCodes[i].hasValidDate

\* ----------------------------------------------------- date normalizers
\* Inputs of the date normalizers: phrases with every day of the years at
\* the edges of the sanity bound, clock readings at every tick of those
\* years, and local time zones at, behind and ahead of UTC.
DateYears == {MinYear, MinYear + 1, MaxYear - 1, MaxYear}
DateZones == {0, 0 - TickOfHour(6), TickOfHour(6)}
DatePhrases ==
  {NoPhrase, Keyword, Sentinel, Garbage}
    \cup { MonthDay(d) : d \in 1..DaysPerYear }
    \cup { Phrase(k, y, d) : k \in {"long", "abbr", "numeric"},
                             y \in DateYears, d \in 1..DaysPerYear }
DateClocks ==
  { Ticks(y, d, t) : y \in DateYears, d \in 1..DaysPerYear, t \in 0..(TicksPerDay - 1) }

\* The calendar year an ISO string shows when it is in UTC ("Z").
UTCFullYear(iso) == getTime(iso) \div TicksPerYear

InitDates ==
  /\ pc = "normalize"
  /\ clock \in DateClocks
  /\ launched = clock
  /\ tz \in DateZones
  /\ run = 1
  /\ texts = [n \in SourceNames |-> [status |-> "pending", page |-> << >>]]
  /\ \E p \in DatePhrases : html = << Row(PlainCode, "", p) >>
  /\ idx = 1
  /\ srcIdx = 0
  /\ pcGamerCodes = << >>
  /\ otherSiteCodes = << >>
  /\ payload = NoPayload
  /\ file = [state |-> "absent", payload |-> NoPayload]
  /\ exitCode = -1
  /\ log = {}

\* The finding an extractor returns for the phrase; srcIdx says for which
\* entry of SOURCES (its extractor type selects the normalizer).
NormalizeFor(k) ==
  /\ pc = "normalize"
  /\ srcIdx' = k
  /\ otherSiteCodes' = << Extract(SOURCES[k].type, html, html[idx].code, clock, tz) >>
  /\ pc' = "normalized"
  /\ UNCHANGED << clock, launched, tz, run, texts, html, idx, pcGamerCodes, payload,
                  file, exitCode, log >>

\* parseStandardDate, through the table, pcgamesn and polygon extractors.
NormalizeStandard ==
  \E k \in DOMAIN SOURCES : SOURCES[k].type # "gamesradar" /\ NormalizeFor(k)

\* parseGamesRadarDate, through the gamesradar extractor.
NormalizeGamesRadar ==
  \E k \in DOMAIN SOURCES : SOURCES[k].type = "gamesradar" /\ NormalizeFor(k)

\* The codeData of an Override Entry (lines 274-285): its expiration is the
\* table's ISO string, the only one that carries a UTC offset.
SpecialData ==
  /\ pc = "normalize"
  /\ \E c \in DOMAIN SPECIAL_CODES :
       otherSiteCodes' = << Finding(SPECIAL_CODES[c].reward, SPECIAL_CODES[c].expires, TRUE) >>
  /\ srcIdx' = 2
  /\ pc' = "normalized"
  /\ UNCHANGED << clock, launched, tz, run, texts, html, idx, pcGamerCodes, payload,
                  file, exitCode, log >>

\* Later clock readings at which an expiration is tested: the same reading
\* again, and the readings one tick around the expiration.
TestClocks(e) ==
  {clock} \cup (IF e.isNull THEN {}
                ELSE { t \in (getTime(e) - 1)..(getTime(e) + 1) : t >= clock })

\* isCodeExpired on the normalized expiration, at a later clock reading; the
\* verdict is logged.
TestExpired ==
  /\ pc = "normalized"
  /\ \E now \in TestClocks(otherSiteCodes[1].expires) :
       /\ clock' = now
       /\ log' = { LogLine(0, IF isCodeExpired(otherSiteCodes[1].expires, now)
                                THEN "EXPIRED" ELSE "ACTIVE",
                           html[idx].code, SOURCES[srcIdx].name) }
  /\ pc' = "tested"
  /\ UNCHANGED << launched, tz, run, texts, html, idx, srcIdx, pcGamerCodes,
                  otherSiteCodes, payload, file, exitCode >>

NextDates == NormalizeStandard \/ NormalizeGamesRadar \/ SpecialData \/ TestExpired
SpecDates == InitDates /\ [][NextDates]_vars

\* C17: every non-null instant the date normalizers return has, in the ISO
\* (UTC) string emitted, a calendar year strictly greater than 2020 and
\* strictly less than 2040.
C17_NormalizedYearInBound ==
  (pc = "normalized" /\ ~otherSiteCodes[1].expires.isNull) =>
    /\ UTCFullYear(otherSiteCodes[1].expires) > MinYear
    /\ UTCFullYear(otherSiteCodes[1].expires) < MaxYear

\* C18: isCodeExpired(e) is true exactly when e is not null and the instant
\* of e is less than or equal to the clock reading: equal counts as expired,
\* null is never expired, later than the clock is not expired.
C18_ExpiredIffNotLaterThanNow ==
  pc = "tested" =>
    LET e == otherSiteCodes[1].expires
        expired == \E l \in log : l.verdict = "EXPIRED"
    IN /\ expired <=> (~e.isNull /\ e.wall - e.off <= clock)
       /\ e.isNull => ~expired
       /\ (~e.isNull /\ e.wall - e.off = clock) => expired
       /\ (~e.isNull /\ e.wall - e.off > clock) => ~expired

\* An ISO string with a UTC offset was tested at the very instant it names,
\* where its wall-clock text is still earlier than the clock's.
C18_Witness ==
  /\ pc = "tested"
  /\ ~otherSiteCodes[1].expires.isNull
  /\ otherSiteCodes[1].expires.off # 0
  /\ getTime(otherSiteCodes[1].expires) = clock
  /\ otherSiteCodes[1].expires.wall < clock
  /\ \E l \in log : l.verdict = "EXPIRED"

\* ------------------------------------------------- siteExtractors.table
\* Rows of a table page: the code looked for or another code, next to no
\* date phrase or to a phrase of one of the pattern families.
TablePhrases ==
  { NoPhrase, LongDate(2030, 1), LongDate(2030, 2), Phrase("numeric", 2029, 1),
    Keyword, Sentinel }
\* Rows of the page: one code next to any of the phrases, and another code
\* with or without a date of its own.
TableRows ==
  { Row(PermCodeA, "", p) : p \in TablePhrases }
    \cup { Row(PlainCode, "", p) : p \in {NoPhrase, LongDate(2030, 1)} }

InitTable ==
  /\ pc = "page"
  /\ clock = Ticks(2030, DayBeforeLast, 0)
  /\ launched = clock
  /\ tz \in LocalOffsets
  /\ run = 1
  /\ texts = [n \in SourceNames |-> [status |-> "pending", page |-> << >>]]
  /\ html = << >>
  /\ idx = 0
  /\ srcIdx = 0
  /\ pcGamerCodes = << >>
  /\ otherSiteCodes = << >>
  /\ payload = NoPayload
  /\ file = [state |-> "absent", payload |-> NoPayload]
  /\ exitCode = -1
  /\ log = {}

\* The page text grows by one row.
AppendRow ==
  /\ pc = "page"
  /\ Len(html) < MaxTableRows
  /\ \E row \in TableRows : html' = Append(html, row)
  /\ UNCHANGED << pc, clock, launched, tz, run, texts, idx, srcIdx, pcGamerCodes,
                  otherSiteCodes, payload, file, exitCode, log >>

\* siteExtractors.table(html, code) for a code of the page; idx is the row of
\* the code's first occurrence.
ExtractTable ==
  /\ pc = "page"
  /\ \E i \in DOMAIN html :
       /\ idx' = indexOf(html, html[i].code)
       /\ otherSiteCodes' = << table(html, html[i].code, tz) >>
  /\ pc' = "extracted"
  /\ UNCHANGED << clock, launched, tz, run, texts, html, srcIdx, pcGamerCodes,
                  payload, file, exitCode, log >>

NextTable == AppendRow \/ ExtractTable
SpecTable == InitTable /\ [][NextTable]_vars

\* Where the text of a row starts, in characters, and whether a match that
\* starts there lies in the window around the row of the code:
\* html.slice(max(0, codeIndex - windowSize), codeIndex + windowSize).
RowStart(r) == (r - 1) * RowWidth
InWindow(r, codeRow) ==
  /\ RowStart(r) >= RowStart(codeRow) - windowSize
  /\ RowStart(r) < RowStart(codeRow) + windowSize

\* The date-shaped matches in the window: row and pattern family.
WindowMatches(page, codeRow) ==
  { m \in (DOMAIN page) \X (1..4) :
      InWindow(m[1], codeRow) /\ m[2] \in PatternsOf(page[m[1]].phrase) }
Distance(m, codeRow) == Abs(RowStart(m[1]) - RowStart(codeRow))
\* m comes before n: closer to the code, or as close and of an earlier
\* family, or as close, of the same family and at an earlier position.
Precedes(m, n, codeRow) ==
  \/ Distance(m, codeRow) < Distance(n, codeRow)
  \/ /\ Distance(m, codeRow) = Distance(n, codeRow)
     /\ \/ m[2] < n[2]
        \/ m[2] = n[2] /\ m[1] <= n[1]

\* C19: the phrase siteExtractors.table hands to the date normalizer is, of
\* all date-shaped matches of the four pattern families inside the window
\* around the code's first occurrence, one at the minimum distance to the
\* code; among several at that distance the one of the earlier family and,
\* within a family, at the earlier position; hasValidDate is true iff there
\* is at least one match, and without a match the expiration is null.
C19_NearestMatchInWindow ==
  pc = "extracted" =>
    LET matches == WindowMatches(html, idx)
        finding == otherSiteCodes[1]
    IN /\ finding.hasValidDate <=> matches # {}
       /\ matches = {} => finding.expires.isNull
       /\ \A m \in matches :
            (\A n \in matches : Precedes(m, n, idx))
              => finding.expires = parseStandardDate(html[m[1]].phrase, tz)

\* Two matches of different families are equally near the code, before and
\* after it, a third one is outside the window, and the expiration is that
\* of the match after the code, which is of the earlier family.
C19_Witness ==
  /\ pc = "extracted"
  /\ \E r \in DOMAIN html : ~InWindow(r, idx) /\ PatternsOf(html[r].phrase) # {}
  /\ \E m \in WindowMatches(html, idx) : \E n \in WindowMatches(html, idx) :
       /\ \A o \in WindowMatches(html, idx) : Precedes(m, o, idx)
       /\ Distance(m, idx) = Distance(n, idx)
       /\ m[1] > n[1]
       /\ m[2] < n[2]
       /\ parseStandardDate(html[m[1]].phrase, tz) # parseStandardDate(html[n[1]].phrase, tz)
       /\ otherSiteCodes[1].expires = parseStandardDate(html[m[1]].phrase, tz)

\* C20: in every state of a run each entry of otherSiteCodes has
\* count = length(sites) >= 1 and each entry of pcGamerCodes has a non-empty
\* sites; no step removes an entry from either map or lowers a count; and
\* every record of the written feed has a non-empty sites whose names are
\* names of sources fetched successfully whose text holds the code, or the
\* "(Special)" tag of the authoritative source.
C20_CountIsLengthOfSites ==
  /\ [](/\ \A i \in DOMAIN otherSiteCodes :
            /\ otherSiteCodes[i].count = Len(otherSiteCodes[i].sites)
            /\ otherSiteCodes[i].count >= 1
        /\ \A j \in DOMAIN pcGamerCodes : Len(pcGamerCodes[j].sites) >= 1
        /\ Written =>
             \A i \in DOMAIN Feed :
               /\ Len(Feed[i].sites) >= 1
               /\ \A k \in DOMAIN Feed[i].sites :
                    LET name == IF Feed[i].sites[k] = "PC Gamer (Special)"
                                  THEN "PC Gamer" ELSE Feed[i].sites[k]
                    IN /\ name \in SourceNames
                       /\ texts[name].status = "ok"
                       /\ Occurrences(name, Feed[i].code) > 0)
  /\ [][ /\ \A j \in DOMAIN pcGamerCodes : MapHas(pcGamerCodes', pcGamerCodes[j].code)
        /\ \A i \in DOMAIN otherSiteCodes :
             /\ MapHas(otherSiteCodes', otherSiteCodes[i].code)
             /\ MapGet(otherSiteCodes', otherSiteCodes[i].code).count
                  >= otherSiteCodes[i].count
      ]_vars

\* The written feed holds an override record tagged "(Special)" and a
\* record corroborated by two sightings.
C20_Witness ==
  /\ Written
  /\ \E i \in DOMAIN Feed : Feed[i].sites = << "PC Gamer (Special)" >>
  /\ \E i \in DOMAIN Feed :
       /\ "count" \in DOMAIN Feed[i]
       /\ Feed[i].count = 2
       /\ Len(Feed[i].sites) = 2

\* ------------------------------------------------------------ termination
\* The position of main(): the statement it is at and the two loop indices.
position == << pc, idx, srcIdx >>
Positions ==
  {"fetchPC", "loopPC", "fetchOther", "loopOther", "assemble", "mkdir", "write",
   "done", "failed"}
Exited == exitCode # -1

\* main() moves on from where it is; it has nowhere to go once the process
\* has exited.
Advance ==
  /\ pc \notin {"done", "failed"}
  /\ pc' \in Positions
  /\ idx' \in 0..MaxOccurrences
  /\ srcIdx' \in 0..Len(otherSources)

\* Every await of main() settles: a fetch returns or throws (lines 187-194),
\* fs.mkdir and fs.writeFile return or throw (lines 359-360), and between two
\* awaits the code runs to the next one, so main() does not stay for ever at
\* a position before its exit.  Every step of Next is a step of Advance that
\* changes the position (EveryStepAdvances), so this is weak fairness of Next
\* stated on the position.
Fairness == WF_position(Advance)
SpecLive == Init /\ [][Next]_vars /\ Fairness

\* A step of the run moves the position, and only before the exit.
EveryStepAdvances == [][<<Advance>>_position]_vars

\* Every source of the registry has been fetched, with or without success.
AllFetched == \A n \in SourceNames : texts[n].status # "pending"
AllFailed == \A n \in SourceNames : texts[n].status = "failed"

\* C21: every run terminates, each of its steps moving main() on; a run
\* that exits with code 0 has written the feed, in one step taken after every
\* source was fetched and its codes processed, and nothing is written before
\* or after that step; a fetch
\* failure never sets the exit code, whatever the combination of failed
\* sources, and when all of them failed the feed written has an empty codes
\* array; the exit code is non-zero only by a step out of fs.mkdir or
\* fs.writeFile.
C21_TerminatesWritesOnceExitsZero ==
  /\ <>Exited
  /\ EveryStepAdvances
  /\ [](exitCode \in {-1, 0, 1})
  /\ [](exitCode = 0 =>
          /\ pc = "done"
          /\ AllFetched
          /\ Written
          /\ file.payload = payload
          /\ (AllFailed => Feed = << >>))
  /\ [](exitCode = 1 <=> pc = "failed")
  /\ [][ /\ (file' # file => /\ pc = "write"
                             /\ AllFetched
                             /\ srcIdx = Len(otherSources)
                             /\ Exited')
        /\ (Exited => UNCHANGED vars)
        /\ ((~Exited /\ exitCode' = 1) => pc \in {"mkdir", "write"})
        /\ ((pc \in {"fetchPC", "fetchOther"}) => exitCode' = -1)
        /\ ((pc = "write" /\ file' = [state |-> "complete", payload |-> payload])
              => exitCode' = 0)
      ]_vars

\* Every fetch failed and the run exited with code 0 after writing a feed
\* with an empty codes array.
C21_Witness ==
  /\ AllFailed
  /\ exitCode = 0
  /\ Written
  /\ Feed = << >>
  /\ \A n \in SourceNames : \E l \in log : l.verdict = "FAILED" /\ l.site = n

====
